---- MODULE Spec2Model ----
(***************************************************************************)
(* A model of the CHIP-8 virtual machine of chip8-emu-rust: the Chip8      *)
(* struct of src/chip8.rs (memory, registers, stack, timers, keyboard,     *)
(* wait-for-key state) and the Display of src/chip8/display.rs.            *)
(*                                                                         *)
(* The machine state is one variable per field.  Every public method is    *)
(* one action.  A Rust panic (index out of bounds, unwrap on None, an       *)
(* unimplemented opcode) is modelled by the flag `panicked`: the fields    *)
(* keep whatever the method had written before it panicked, and no method  *)
(* runs afterwards.                                                        *)
(***************************************************************************)
EXTENDS Integers, Sequences, FiniteSets, TLC

VARIABLES
    display,                \* Display::buffer, [bool; 64 * 32], row-major
    ram,                    \* Chip8::ram, [u8; 4096]
    pc,                     \* Chip8::pc, u16
    stack,                  \* Chip8::stack, Vec<u16>
    reg_i,                  \* Chip8::reg_i, u16
    reg_v,                  \* Chip8::reg_v, [u8; 16]
    delay_timer,            \* Chip8::delay_timer, u8
    sound_timer,            \* Chip8::sound_timer, u8
    keyboard,               \* Chip8::keyboard, [bool; 16]
    paused,                 \* Chip8::paused
    store_keypress_in_reg,  \* Chip8::store_keypress_in_reg, u8
    panicked,               \* a method has panicked: the thread has unwound
    last,                   \* history: the last call made and its arguments
    fx0a,                   \* history: the Fx0A still owed its first key press
    loads,                  \* history: number of load calls made so far
    draws,                  \* history: number of direct Display::draw calls
    timing                  \* history: what each timer was last set to, and
                            \* the dec_timers calls since (counted up to that)

vm_vars == <<display, ram, pc, stack, reg_i, reg_v, delay_timer, sound_timer,
             keyboard, paused, store_keypress_in_reg, panicked>>

vars == <<display, ram, pc, stack, reg_i, reg_v, delay_timer, sound_timer,
          keyboard, paused, store_keypress_in_reg, panicked, last, fx0a, loads,
          draws, timing>>

-----------------------------------------------------------------------------
(* Program constants *)

RES_WIDTH == 64

RES_HEIGHT == 32

RAM_SIZE == 4096

PROGRAM_START == 512

FONT_SPRITES_MEM_ADDR == 0

FONT_SPRITE_LEN == 5

U8 == 256

U16 == 65536

FONT_SPRITES ==
    << <<240, 144, 144, 144, 240>>, <<32, 96, 32, 32, 112>>,
       <<240, 16, 240, 128, 240>>,  <<240, 16, 240, 16, 240>>,
       <<144, 144, 240, 16, 16>>,   <<240, 128, 240, 16, 240>>,
       <<240, 128, 240, 144, 240>>, <<240, 16, 32, 64, 64>>,
       <<240, 144, 240, 144, 240>>, <<240, 144, 240, 16, 240>>,
       <<240, 144, 240, 144, 144>>, <<224, 144, 224, 144, 224>>,
       <<240, 128, 128, 128, 240>>, <<224, 144, 144, 144, 224>>,
       <<240, 128, 240, 128, 240>>, <<240, 128, 240, 128, 128>> >>

-----------------------------------------------------------------------------
(* Bounds of the model *)

\* load is called at most this many times in one behaviour
MaxLoads == 1

\* the Display used on its own is drawn on at most this many times
MaxDraws == 2

\* the call stack (a Vec, unbounded in the code) is explored up to this depth
MaxStack == 2

-----------------------------------------------------------------------------
(* Bit arithmetic on bytes *)

BitOf(v, i) == (v \div (2 ^ i)) % 2

And8(a, b) ==
    LET f[i \in 0..8] == IF i = 8 THEN 0
                         ELSE BitOf(a, i) * BitOf(b, i) * (2 ^ i) + f[i + 1]
    IN f[0]

Or8(a, b) ==
    LET f[i \in 0..8] ==
            IF i = 8 THEN 0
            ELSE (IF BitOf(a, i) + BitOf(b, i) > 0 THEN 2 ^ i ELSE 0) + f[i + 1]
    IN f[0]

Xor8(a, b) ==
    LET f[i \in 0..8] ==
            IF i = 8 THEN 0
            ELSE (IF BitOf(a, i) # BitOf(b, i) THEN 2 ^ i ELSE 0) + f[i + 1]
    IN f[0]

-----------------------------------------------------------------------------
(* Display (src/chip8/display.rs) *)

\* Display::new and Display::clear: every pixel off
BlankBuffer == [p \in 0..(RES_WIDTH * RES_HEIGHT - 1) |-> FALSE]

\* DrawPixel with the pixel set instead of toggled
DrawPixel_Set(d, byte, x_wrapped, y_wrapped, row, col) ==
    LET pixel_value == BitOf(byte, 7 - col)
        pixel_idx == (y_wrapped + row) * RES_WIDTH + x_wrapped + col
    IN IF pixel_idx >= RES_WIDTH * RES_HEIGHT THEN d
       ELSE IF pixel_value > 0
            THEN [buffer |-> [d.buffer EXCEPT ![pixel_idx] = TRUE],
                  unset |-> d.unset \/ d.buffer[pixel_idx]]
            ELSE d

\* The body of the inner loop of Display::draw for one (row, col): d is the
\* pair [buffer, unset] carried through the loops.
DrawPixel(d, byte, x_wrapped, y_wrapped, row, col) ==
    LET pixel_value == BitOf(byte, 7 - col)          \* byte & (0x80 >> col)
        pixel_idx == (y_wrapped + row) * RES_WIDTH + x_wrapped + col
    IN IF pixel_idx >= RES_WIDTH * RES_HEIGHT THEN d
       ELSE IF pixel_value > 0
            THEN [buffer |-> [d.buffer EXCEPT ![pixel_idx] = ~d.buffer[pixel_idx]],
                  unset |-> d.unset \/ d.buffer[pixel_idx]]
            ELSE d

\* One iteration of a loop after the other: Rest continues from the value the
\* iteration before it has produced (the value is computed before Rest starts)
Then(value, Rest(_)) == CHOOSE result \in {Rest(v) : v \in {value}} : TRUE

\* for col in 0..8
RECURSIVE DrawCols(_, _, _, _, _, _)
DrawCols(d, byte, x_wrapped, y_wrapped, row, col) ==
    IF col >= 8 THEN d
    ELSE Then(DrawPixel(d, byte, x_wrapped, y_wrapped, row, col),
              LAMBDA after :
                  DrawCols(after, byte, x_wrapped, y_wrapped, row, col + 1))

\* for (row, byte) in sprite.iter().enumerate()
RECURSIVE DrawRows(_, _, _, _, _)
DrawRows(d, sprite, x_wrapped, y_wrapped, row) ==
    IF row >= Len(sprite) THEN d
    ELSE Then(DrawCols(d, sprite[row + 1], x_wrapped, y_wrapped, row, 0),
              LAMBDA after :
                  DrawRows(after, sprite, x_wrapped, y_wrapped, row + 1))

\* Display::draw: the buffer afterwards and the returned flag
DisplayDraw(buffer, sprite, x, y) ==
    DrawRows([buffer |-> buffer, unset |-> FALSE], sprite,
             x % RES_WIDTH, y % RES_HEIGHT, 0)

-----------------------------------------------------------------------------
(* Chip8 (src/chip8.rs) *)

\* The machine as one record, for the methods written as functions of it
Self ==
    [display |-> display, ram |-> ram, pc |-> pc, stack |-> stack,
     reg_i |-> reg_i, reg_v |-> reg_v, delay_timer |-> delay_timer,
     sound_timer |-> sound_timer, keyboard |-> keyboard, paused |-> paused,
     store_keypress_in_reg |-> store_keypress_in_reg, panicked |-> panicked]

\* The fields after a method has returned (or panicked) with machine m
Commit(m) ==
    /\ display' = m.display
    /\ ram' = m.ram
    /\ pc' = m.pc
    /\ stack' = m.stack
    /\ reg_i' = m.reg_i
    /\ reg_v' = m.reg_v
    /\ delay_timer' = m.delay_timer
    /\ sound_timer' = m.sound_timer
    /\ keyboard' = m.keyboard
    /\ paused' = m.paused
    /\ store_keypress_in_reg' = m.store_keypress_in_reg
    /\ panicked' = m.panicked

Panic(m) == [m EXCEPT !.panicked = TRUE]

\* Chip8::load_sprites: glyph d at FONT_SPRITES_MEM_ADDR + d * 5
load_sprites(mem) ==
    [a \in 0..(RAM_SIZE - 1) |->
        IF /\ a >= FONT_SPRITES_MEM_ADDR
           /\ a < FONT_SPRITES_MEM_ADDR + Len(FONT_SPRITES) * FONT_SPRITE_LEN
        THEN FONT_SPRITES[((a - FONT_SPRITES_MEM_ADDR) \div FONT_SPRITE_LEN) + 1]
                         [((a - FONT_SPRITES_MEM_ADDR) % FONT_SPRITE_LEN) + 1]
        ELSE mem[a]]

\* Chip8::pause_until_keypress
pause_until_keypress(m, reg) ==
    [m EXCEPT !.paused = TRUE, !.store_keypress_in_reg = reg]

\* Chip8::beep
beep == sound_timer > 0

\* Chip8::key_pressed: the write of Vx and of the pause flag comes first, the
\* indexing keyboard[key] (which panics for key >= 16) last.
key_pressed(m, key, state) ==
    LET m1 == IF m.paused
              THEN [m EXCEPT !.reg_v[m.store_keypress_in_reg] = key,
                             !.paused = FALSE]
              ELSE m
    IN IF key >= 16 THEN Panic(m1)
       ELSE [m1 EXCEPT !.keyboard[key] = state]

\* load that also takes the machine out of its wait for a key
load_EndsWait(m, data) ==
    LET start == PROGRAM_START
        end == start + Len(data)
    IN IF end > RAM_SIZE THEN Panic(m)
       ELSE [m EXCEPT !.ram = [a \in 0..(RAM_SIZE - 1) |->
                                  IF a >= start /\ a < end
                                  THEN data[a - start + 1] ELSE m.ram[a]],
                      !.pc = PROGRAM_START,
                      !.paused = FALSE]

\* load that copies the bytes that fit and drops the rest
load_Clamped(m, data) ==
    LET start == PROGRAM_START
        end == IF start + Len(data) > RAM_SIZE THEN RAM_SIZE
               ELSE start + Len(data)
    IN [m EXCEPT !.ram = [a \in 0..(RAM_SIZE - 1) |->
                             IF a >= start /\ a < end
                             THEN data[a - start + 1] ELSE m.ram[a]],
                 !.pc = PROGRAM_START]

\* Chip8::load: taking the slice ram[start..end] panics when end > RAM_SIZE,
\* before copy_from_slice writes anything.
load(m, data) ==
    LET start == PROGRAM_START
        end == start + Len(data)
    IN IF end > RAM_SIZE THEN Panic(m)
       ELSE [m EXCEPT !.ram = [a \in 0..(RAM_SIZE - 1) |->
                                  IF a >= start /\ a < end
                                  THEN data[a - start + 1] ELSE m.ram[a]],
                      !.pc = PROGRAM_START]

\* A tick that is dropped while the machine waits for a key
dec_timers_NotWhilePaused(m) ==
    IF m.paused THEN m
    ELSE [m EXCEPT !.delay_timer = IF @ > 0 THEN @ - 1 ELSE @,
                   !.sound_timer = IF @ > 0 THEN @ - 1 ELSE @]

\* A tick without the test for zero: an 8-bit decrement that wraps
dec_timers_Wrapping(m) ==
    [m EXCEPT !.delay_timer = (@ - 1) % U8,
              !.sound_timer = (@ - 1) % U8]

\* Chip8::dec_timers
dec_timers(m) ==
    [m EXCEPT !.delay_timer = IF @ > 0 THEN @ - 1 ELSE @,
              !.sound_timer = IF @ > 0 THEN @ - 1 ELSE @]

\* Chip8::fetch: whether the two reads index inside ram, and the opcode read
FetchInBounds(m) == m.pc + 1 < RAM_SIZE

\* The two bytes at pc read low byte first
FetchOpcode_LittleEndian(m) == m.ram[m.pc + 1] * 256 + m.ram[m.pc]

FetchOpcode(m) == m.ram[m.pc] * 256 + m.ram[m.pc + 1]

fetch(m) == [m EXCEPT !.pc = (m.pc + 2) % U16]

\* The operands of an opcode (Chip8::execute, `digits` and the masks)
D1(opcode) == opcode \div 4096
X(opcode) == (opcode \div 256) % 16
Y(opcode) == (opcode \div 16) % 16
N(opcode) == opcode % 16
NN(opcode) == opcode % 256
NNN(opcode) == opcode % 4096

\* if cond { self.pc += 2 }
Skip(m, cond) == IF cond THEN [m EXCEPT !.pc = (m.pc + 2) % U16] ELSE m

\* 00E0 - Clear the display
Op00E0(m, opcode) == [m EXCEPT !.display = BlankBuffer]

\* 00EE - Return from a subroutine: self.stack.pop().unwrap()
Op00EE(m, opcode) ==
    IF Len(m.stack) = 0 THEN Panic(m)
    ELSE [m EXCEPT !.pc = m.stack[Len(m.stack)],
                   !.stack = SubSeq(m.stack, 1, Len(m.stack) - 1)]

\* 1nnn - Jump to location nnn
Op1nnn(m, opcode) == [m EXCEPT !.pc = NNN(opcode)]

\* A call that pushes its own address, not the address after it
Op2nnn_PushCallAddr(m, opcode) ==
    [m EXCEPT !.stack = Append(m.stack, m.pc - 2), !.pc = NNN(opcode)]

\* 2nnn - Call subroutine at nnn
Op2nnn(m, opcode) ==
    [m EXCEPT !.stack = Append(m.stack, m.pc), !.pc = NNN(opcode)]

\* 3xkk - Skip next instruction if Vx = kk
Op3xkk(m, opcode) == Skip(m, m.reg_v[X(opcode)] = NN(opcode))

\* 4xkk - Skip next instruction if Vx != kk
Op4xkk(m, opcode) == Skip(m, m.reg_v[X(opcode)] # NN(opcode))

\* 5xy0 - Skip next instruction if Vx = Vy
Op5xy0(m, opcode) == Skip(m, m.reg_v[X(opcode)] = m.reg_v[Y(opcode)])

\* 6xkk - Set Vx = kk
Op6xkk(m, opcode) == [m EXCEPT !.reg_v[X(opcode)] = NN(opcode)]

\* 7xkk - Set Vx = Vx + kk (wrapping_add)
Op7xkk(m, opcode) ==
    [m EXCEPT !.reg_v[X(opcode)] = (m.reg_v[X(opcode)] + NN(opcode)) % U8]

\* 8xy0 - Set Vx = Vy
Op8xy0(m, opcode) == [m EXCEPT !.reg_v[X(opcode)] = m.reg_v[Y(opcode)]]

\* 8xy1 - Set Vx = Vx OR Vy
Op8xy1(m, opcode) ==
    [m EXCEPT !.reg_v[X(opcode)] = Or8(m.reg_v[X(opcode)], m.reg_v[Y(opcode)])]

\* 8xy2 - Set Vx = Vx AND Vy
Op8xy2(m, opcode) ==
    [m EXCEPT !.reg_v[X(opcode)] = And8(m.reg_v[X(opcode)], m.reg_v[Y(opcode)])]

\* 8xy3 - Set Vx = Vx XOR Vy
Op8xy3(m, opcode) ==
    [m EXCEPT !.reg_v[X(opcode)] = Xor8(m.reg_v[X(opcode)], m.reg_v[Y(opcode)])]

\* 8xy4 - Set Vx = Vx + Vy, set VF = carry (Vx is written first, VF second)
\* An add that reports a carry only past 256, not at 256
Op8xy4_CarryOffByOne(m, opcode) ==
    LET sum == m.reg_v[X(opcode)] + m.reg_v[Y(opcode)]
    IN [m EXCEPT !.reg_v[X(opcode)] = sum % U8,
                 !.reg_v[15] = IF sum > U8 THEN 1 ELSE 0]

Op8xy4(m, opcode) ==
    LET sum == m.reg_v[X(opcode)] + m.reg_v[Y(opcode)]
    IN [m EXCEPT !.reg_v[X(opcode)] = sum % U8,
                 !.reg_v[15] = IF sum >= U8 THEN 1 ELSE 0]

\* A subtraction that reports a borrow for equal operands
Op8xy5_BorrowOnEqual(m, opcode) ==
    LET vx == m.reg_v[X(opcode)]
        vy == m.reg_v[Y(opcode)]
    IN [m EXCEPT !.reg_v[X(opcode)] = (vx - vy) % U8,
                 !.reg_v[15] = IF vx <= vy THEN 0 ELSE 1]

\* 8xy5 - Set Vx = Vx - Vy, set VF = NOT borrow
Op8xy5(m, opcode) ==
    LET vx == m.reg_v[X(opcode)]
        vy == m.reg_v[Y(opcode)]
    IN [m EXCEPT !.reg_v[X(opcode)] = (vx - vy) % U8,
                 !.reg_v[15] = IF vx < vy THEN 0 ELSE 1]

\* A shift that writes the flag first and the shifted value last
Op8xy6_FlagFirst(m, opcode) ==
    LET vx == m.reg_v[X(opcode)]
    IN [m EXCEPT !.reg_v[15] = vx % 2, !.reg_v[X(opcode)] = vx \div 2]

\* 8xy6 - Set Vx = Vx SHR 1
Op8xy6(m, opcode) ==
    LET vx == m.reg_v[X(opcode)]
    IN [m EXCEPT !.reg_v[X(opcode)] = vx \div 2, !.reg_v[15] = vx % 2]

\* 8xy7 - Set Vx = Vy - Vx, set VF = NOT borrow
Op8xy7(m, opcode) ==
    LET vx == m.reg_v[X(opcode)]
        vy == m.reg_v[Y(opcode)]
    IN [m EXCEPT !.reg_v[X(opcode)] = (vy - vx) % U8,
                 !.reg_v[15] = IF vy < vx THEN 0 ELSE 1]

\* 8xyE - Set Vx = Vx SHL 1
Op8xyE(m, opcode) ==
    LET vx == m.reg_v[X(opcode)]
    IN [m EXCEPT !.reg_v[X(opcode)] = (vx * 2) % U8, !.reg_v[15] = vx \div 128]

\* 9xy0 - Skip next instruction if Vx != Vy
Op9xy0(m, opcode) == Skip(m, m.reg_v[X(opcode)] # m.reg_v[Y(opcode)])

\* Annn - Set I = nnn
OpAnnn(m, opcode) == [m EXCEPT !.reg_i = NNN(opcode)]

\* Bnnn as a jump: pc, not reg_i, is assigned
OpBnnn_Jump(m, opcode) == [m EXCEPT !.pc = NNN(opcode) + m.reg_v[0]]

\* Bnnn - "Jump to location nnn + V0": the code assigns reg_i, not pc
OpBnnn(m, opcode) == [m EXCEPT !.reg_i = NNN(opcode) + m.reg_v[0]]

\* Cxkk - Set Vx = random byte AND kk; rnd is the value gen_range(0..256) gave
OpCxkk(m, opcode, rnd) == [m EXCEPT !.reg_v[X(opcode)] = And8(rnd, NN(opcode))]

\* Dxyn that writes VF only when the draw collided
OpDxyn_FlagOnlyOnCollision(m, opcode) ==
    LET vx == m.reg_v[X(opcode)]
        vy == m.reg_v[Y(opcode)]
        addr_start == m.reg_i
        addr_end == addr_start + N(opcode)
    IN IF addr_end > RAM_SIZE THEN Panic(m)
       ELSE LET sprite == [r \in 1..N(opcode) |-> m.ram[addr_start + r - 1]]
                d == DisplayDraw(m.display, sprite, vx, vy)
            IN [m EXCEPT !.display = d.buffer,
                         !.reg_v[15] = IF d.unset THEN 1 ELSE @]

\* Dxyn - draw the n-byte sprite at ram[I..I+n] at (Vx, Vy), VF = collision;
\* taking the slice panics when I + n > RAM_SIZE, before anything is drawn.
OpDxyn(m, opcode) ==
    LET vx == m.reg_v[X(opcode)]
        vy == m.reg_v[Y(opcode)]
        addr_start == m.reg_i
        addr_end == addr_start + N(opcode)
    IN IF addr_end > RAM_SIZE THEN Panic(m)
       ELSE LET sprite == [r \in 1..N(opcode) |-> m.ram[addr_start + r - 1]]
                d == DisplayDraw(m.display, sprite, vx, vy)
            IN [m EXCEPT !.display = d.buffer,
                         !.reg_v[15] = IF d.unset THEN 1 ELSE 0]

\* Ex9E - Skip next instruction if the key with the value of Vx is pressed;
\* keyboard[vx] panics when Vx >= 16.
OpEx9E(m, opcode) ==
    LET vx == m.reg_v[X(opcode)]
    IN IF vx >= 16 THEN Panic(m) ELSE Skip(m, m.keyboard[vx])

\* ExA1 - Skip next instruction if the key with the value of Vx is not pressed
OpExA1(m, opcode) ==
    LET vx == m.reg_v[X(opcode)]
    IN IF vx >= 16 THEN Panic(m) ELSE Skip(m, ~m.keyboard[vx])

\* Fx07 - Set Vx = delay timer value
OpFx07(m, opcode) == [m EXCEPT !.reg_v[X(opcode)] = m.delay_timer]

\* Fx0A - Wait for a key press, store the value of the key in Vx
OpFx0A(m, opcode) == pause_until_keypress(m, X(opcode))

\* Fx15 - Set delay timer = Vx
OpFx15(m, opcode) == [m EXCEPT !.delay_timer = m.reg_v[X(opcode)]]

\* Fx18 - Set sound timer = Vx
OpFx18(m, opcode) == [m EXCEPT !.sound_timer = m.reg_v[X(opcode)]]

\* Fx1E - I = I + Vx.  `self.reg_i += vx as u16` on a u16: when the sum does
\* not fit, a build with overflow checks panics and a build without wraps.
OpFx1E(m, opcode, overflow_checks) ==
    LET sum == m.reg_i + m.reg_v[X(opcode)]
    IN IF sum >= U16 /\ overflow_checks THEN Panic(m)
       ELSE [m EXCEPT !.reg_i = sum % U16]

\* Fx29 - "Set I = location of sprite for digit Vx": the code multiplies the
\* register number x, not the value of Vx
OpFx29(m, opcode) ==
    [m EXCEPT !.reg_i = FONT_SPRITES_MEM_ADDR + FONT_SPRITE_LEN * X(opcode)]

\* One indexed store self.ram[addr] = value: a panic when addr is outside ram
\* (and nothing more is done once the machine has panicked)
Store(m, addr, value) ==
    IF m.panicked THEN m
    ELSE IF addr >= RAM_SIZE THEN Panic(m)
    ELSE [m EXCEPT !.ram[addr] = value]

\* Fx33 - Store BCD representation of Vx in memory locations I, I+1, and I+2
OpFx33(m, opcode) ==
    LET vx == m.reg_v[X(opcode)]
        hundreds == vx \div 100
        tens == (vx % 100) \div 10
        units == vx % 10
    IN Store(Store(Store(m, m.reg_i, hundreds), m.reg_i + 1, tens),
             m.reg_i + 2, units)

\* A dump that stops before Vx: for i in 0..x
RECURSIVE RegDump_Exclusive(_, _, _)
RegDump_Exclusive(m, i, x) ==
    IF i >= x \/ m.panicked THEN m
    ELSE Then(Store(m, m.reg_i + i, m.reg_v[i]),
              LAMBDA after : RegDump_Exclusive(after, i + 1, x))

\* Fx55 - Store registers V0 through Vx in memory starting at location I:
\* for i in 0..x + 1 { ram[reg_i + i] = reg_v[i] }
RECURSIVE RegDump(_, _, _)
RegDump(m, i, x) ==
    IF i > x \/ m.panicked THEN m
    ELSE Then(Store(m, m.reg_i + i, m.reg_v[i]),
              LAMBDA after : RegDump(after, i + 1, x))

\* The original interpreter's Fx55: I is left at I + x + 1
OpFx55_AdvanceI(m, opcode) ==
    LET after == RegDump(m, 0, X(opcode))
    IN IF after.panicked THEN after
       ELSE [after EXCEPT !.reg_i = @ + X(opcode) + 1]

OpFx55(m, opcode) == RegDump(m, 0, X(opcode))

\* Fx65 - Read registers V0 through Vx from memory starting at location I:
\* for i in 0..x + 1 { reg_v[i] = ram[reg_i + i] }
RECURSIVE RegLoad(_, _, _)
RegLoad(m, i, x) ==
    IF i > x \/ m.panicked THEN m
    ELSE IF m.reg_i + i >= RAM_SIZE THEN Panic(m)
    ELSE Then([m EXCEPT !.reg_v[i] = m.ram[m.reg_i + i]],
              LAMBDA after : RegLoad(after, i + 1, x))

OpFx65(m, opcode) == RegLoad(m, 0, X(opcode))

\* An unknown word that is skipped, not refused
OpUnimplemented_Ignored(m, opcode) == m

\* _ => panic!("unimplemented instruction {:#06X}", opcode)
OpUnimplemented(m, opcode) == Panic(m)

\* Chip8::execute: the match on the four nibbles; rnd and overflow_checks are
\* the two things the opcode does not determine.
execute(m, opcode, rnd, overflow_checks) ==
    LET d1 == D1(opcode)
        x == X(opcode)
        y == Y(opcode)
        n == N(opcode)
    IN CASE d1 = 0 /\ x = 0 /\ y = 14 /\ n = 0 -> Op00E0(m, opcode)
         [] d1 = 0 /\ x = 0 /\ y = 14 /\ n = 14 -> Op00EE(m, opcode)
         [] d1 = 1 -> Op1nnn(m, opcode)
         [] d1 = 2 -> Op2nnn(m, opcode)
         [] d1 = 3 -> Op3xkk(m, opcode)
         [] d1 = 4 -> Op4xkk(m, opcode)
         [] d1 = 5 /\ n = 0 -> Op5xy0(m, opcode)
         [] d1 = 6 -> Op6xkk(m, opcode)
         [] d1 = 7 -> Op7xkk(m, opcode)
         [] d1 = 8 /\ n = 0 -> Op8xy0(m, opcode)
         [] d1 = 8 /\ n = 1 -> Op8xy1(m, opcode)
         [] d1 = 8 /\ n = 2 -> Op8xy2(m, opcode)
         [] d1 = 8 /\ n = 3 -> Op8xy3(m, opcode)
         [] d1 = 8 /\ n = 4 -> Op8xy4(m, opcode)
         [] d1 = 8 /\ n = 5 -> Op8xy5(m, opcode)
         [] d1 = 8 /\ n = 6 -> Op8xy6(m, opcode)
         [] d1 = 8 /\ n = 7 -> Op8xy7(m, opcode)
         [] d1 = 8 /\ n = 14 -> Op8xyE(m, opcode)
         [] d1 = 9 /\ n = 0 -> Op9xy0(m, opcode)
         [] d1 = 10 -> OpAnnn(m, opcode)
         [] d1 = 11 -> OpBnnn(m, opcode)
         [] d1 = 12 -> OpCxkk(m, opcode, rnd)
         [] d1 = 13 -> OpDxyn(m, opcode)
         [] d1 = 14 /\ y = 9 /\ n = 14 -> OpEx9E(m, opcode)
         [] d1 = 14 /\ y = 10 /\ n = 1 -> OpExA1(m, opcode)
         [] d1 = 15 /\ y = 0 /\ n = 7 -> OpFx07(m, opcode)
         [] d1 = 15 /\ y = 0 /\ n = 10 -> OpFx0A(m, opcode)
         [] d1 = 15 /\ y = 1 /\ n = 5 -> OpFx15(m, opcode)
         [] d1 = 15 /\ y = 1 /\ n = 8 -> OpFx18(m, opcode)
         [] d1 = 15 /\ y = 1 /\ n = 14 -> OpFx1E(m, opcode, overflow_checks)
         [] d1 = 15 /\ y = 2 /\ n = 9 -> OpFx29(m, opcode)
         [] d1 = 15 /\ y = 3 /\ n = 3 -> OpFx33(m, opcode)
         [] d1 = 15 /\ y = 5 /\ n = 5 -> OpFx55(m, opcode)
         [] d1 = 15 /\ y = 6 /\ n = 5 -> OpFx65(m, opcode)
         [] OTHER -> OpUnimplemented(m, opcode)

\* fetch_execute without the check of the pause flag
fetch_execute_NoPauseCheck(m, rnd, overflow_checks) ==
    IF ~FetchInBounds(m) THEN Panic(m)
    ELSE execute(fetch(m), FetchOpcode(m), rnd, overflow_checks)

\* Chip8::fetch_execute: nothing while paused; else fetch (a panic when pc or
\* pc + 1 is outside ram), then execute with pc already advanced.
fetch_execute(m, rnd, overflow_checks) ==
    IF m.paused THEN m
    ELSE IF ~FetchInBounds(m) THEN Panic(m)
    ELSE execute(fetch(m), FetchOpcode(m), rnd, overflow_checks)

-----------------------------------------------------------------------------
(* The calls the host makes, as actions *)

\* The history record of a call: its name and arguments
Call(op, key, state, len, opcode, sprite, x, y, ret) ==
    [op |-> op, key |-> key, state |-> state, len |-> len, opcode |-> opcode,
     sprite |-> sprite, x |-> x, y |-> y, ret |-> ret, data |-> <<>>,
     repeat |-> /\ last.op = op /\ last.sprite = sprite
                /\ last.x = x /\ last.y = y]

NoOpcode == 0 - 1

NoFx0A == [reg |-> 16, resume |-> 0]

\* Chip8::new sets both timers to 0
NoTiming == [t \in {"delay", "sound"} |-> [n |-> 0, ticks |-> 0]]

\* Chip8::new
Init ==
    /\ display = BlankBuffer
    /\ ram = load_sprites([a \in 0..(RAM_SIZE - 1) |-> 0])
    /\ pc = 0
    /\ stack = <<>>
    /\ reg_i = 0
    /\ reg_v = [r \in 0..15 |-> 0]
    /\ delay_timer = 0
    /\ sound_timer = 0
    /\ keyboard = [k \in 0..15 |-> FALSE]
    /\ paused = FALSE
    /\ store_keypress_in_reg = 0
    /\ panicked = FALSE
    /\ last = [op |-> "new", key |-> 0, state |-> FALSE, len |-> 0,
               opcode |-> NoOpcode, sprite |-> <<>>, x |-> 0, y |-> 0,
               ret |-> FALSE, data |-> <<>>, repeat |-> FALSE]
    /\ fx0a = NoFx0A
    /\ loads = 0
    /\ draws = 0
    /\ timing = NoTiming

\* chip8.load(data)
Load(data) ==
    /\ ~panicked
    /\ loads < MaxLoads
    /\ Commit(load(Self, data))
    /\ last' = [Call("load", 0, FALSE, Len(data), NoOpcode, <<>>, 0, 0, FALSE)
                    EXCEPT !.data = data]
    /\ loads' = loads + 1
    /\ UNCHANGED <<fx0a, draws, timing>>

\* chip8.key_pressed(key, state)
KeyPressed(key, state) ==
    /\ ~panicked
    /\ Commit(key_pressed(Self, key, state))
    /\ last' = Call("key_pressed", key, state, 0, NoOpcode, <<>>, 0, 0, FALSE)
    /\ fx0a' = IF state THEN NoFx0A ELSE fx0a
    /\ UNCHANGED <<loads, draws, timing>>

\* chip8.dec_timers()
DecTimers ==
    /\ ~panicked
    /\ Commit(dec_timers(Self))
    /\ last' = Call("dec_timers", 0, FALSE, 0, NoOpcode, <<>>, 0, 0, FALSE)
    /\ timing' = [t \in DOMAIN timing |->
                    [timing[t] EXCEPT !.ticks = IF @ < timing[t].n THEN @ + 1
                                                ELSE @]]
    /\ UNCHANGED <<fx0a, loads, draws>>

\* The opcode the next fetch_execute will execute, if it executes one
Fetches == ~paused /\ FetchInBounds(Self)

NextOpcode == IF Fetches THEN FetchOpcode(Self) ELSE NoOpcode

\* chip8.fetch_execute()
FetchExecute ==
    /\ ~panicked
    /\ ~(Fetches /\ D1(NextOpcode) = 2 /\ Len(stack) >= MaxStack)
    /\ \E rnd \in (IF Fetches /\ D1(NextOpcode) = 12 THEN 0..(U8 - 1) ELSE {0}),
          overflow_checks \in (IF Fetches /\ D1(NextOpcode) = 15
                               THEN BOOLEAN ELSE {FALSE}) :
            Commit(fetch_execute(Self, rnd, overflow_checks))
    /\ last' = Call("fetch_execute", 0, FALSE, 0, NextOpcode, <<>>, 0, 0, FALSE)
    /\ fx0a' = IF /\ Fetches /\ D1(NextOpcode) = 15
                  /\ Y(NextOpcode) = 0 /\ N(NextOpcode) = 10
               THEN [reg |-> X(NextOpcode), resume |-> (pc + 2) % U16]
               ELSE fx0a
    /\ timing' = IF Fetches /\ D1(NextOpcode) = 15 /\ Y(NextOpcode) = 1
                    /\ N(NextOpcode) \in {5, 8}
                 THEN [timing EXCEPT ![IF N(NextOpcode) = 5 THEN "delay"
                                       ELSE "sound"] =
                                     [n |-> reg_v[X(NextOpcode)], ticks |-> 0]]
                 ELSE timing
    /\ UNCHANGED <<loads, draws>>

\* chip8.display.draw(sprite, x, y), the Display used on its own
DrawCall(sprite, x, y) ==
    /\ ~panicked
    /\ draws < MaxDraws
    /\ draws' = draws + 1
    /\ display' = DisplayDraw(display, sprite, x, y).buffer
    /\ last' = Call("draw", 0, FALSE, 0, NoOpcode, sprite, x, y,
                    DisplayDraw(display, sprite, x, y).unset)
    /\ UNCHANGED <<ram, pc, stack, reg_i, reg_v, delay_timer, sound_timer,
                   keyboard, paused, store_keypress_in_reg, panicked, fx0a,
                   loads, timing>>

\* chip8.display.clear()
ClearCall ==
    /\ ~panicked
    /\ UNCHANGED draws
    /\ display' = BlankBuffer
    /\ last' = Call("clear", 0, FALSE, 0, NoOpcode, <<>>, 0, 0, FALSE)
    /\ UNCHANGED <<ram, pc, stack, reg_i, reg_v, delay_timer, sound_timer,
                   keyboard, paused, store_keypress_in_reg, panicked, fx0a,
                   loads, timing>>

-----------------------------------------------------------------------------
(* Inputs *)

\* The opcode with nibbles a, b, c, d
Op(a, b, c, d) == a * 4096 + b * 256 + c * 16 + d

\* A program image: each opcode as two bytes, most significant first
Image(ops) ==
    [i \in 1..(2 * Len(ops)) |->
        IF i % 2 = 1 THEN ops[(i + 1) \div 2] \div 256
        ELSE ops[i \div 2] % 256]

\* 0x200: V1 := 2; delay := V1; sound := V1; 0x206: wait for a key into V1;
\* V1 += 1; jump back to 0x206
WaitLoop ==
    Image(<<Op(6, 1, 0, 2), Op(15, 1, 1, 5), Op(15, 1, 1, 8),
            Op(15, 1, 0, 10), Op(7, 1, 0, 1), Op(1, 2, 0, 6)>>)

\* wait for a key into V2, then V2 := 9 and the image ends
WaitOnce == Image(<<Op(15, 2, 0, 10), Op(6, 2, 0, 9)>>)

KeyPrograms == {WaitLoop, WaitOnce}

\* key arguments: two keys of the pad and a u8 value that is no key
KeyInputs == {3, 15, 16}

\* The host loop of main.rs: one image is loaded, then key events, steps and
\* timer ticks follow in any order
NextKey ==
    \/ \E data \in KeyPrograms : Load(data)
    \/ FetchExecute
    \/ DecTimers
    \/ \E key \in KeyInputs, state \in BOOLEAN : KeyPressed(key, state)

SpecKey == Init /\ [][NextKey]_vars

-----------------------------------------------------------------------------
(* The Display on its own: draw and clear calls on a new Display *)

DrawSprites == {<<255>>, <<129, 66, 255>>}

DrawXs == {0, 4, 60, 200}

DrawYs == {0, 31, 40}

NextDisplay ==
    \/ \E sprite \in DrawSprites, x \in DrawXs, y \in DrawYs :
          DrawCall(sprite, x, y)
    \/ ClearCall

SpecDisplay == Init /\ [][NextDisplay]_vars

-----------------------------------------------------------------------------
(* The machine running loaded images *)

\* Va := x; Vb := y; I := i; then the n-byte sprite at I is drawn three times
\* at (Va, Vb)
DrawImage(a, b, x, y, i, n) ==
    Image(<<Op(6, a, 0, 0) + x, Op(6, b, 0, 0) + y, Op(10, 0, 0, 0) + i,
            Op(13, a, b, n), Op(13, a, b, n), Op(13, a, b, n)>>)

DrawImages ==
    {DrawImage(0, 1, x, y, i, n) :
        x \in {0, 61, 130}, y \in {0, 30}, i \in {0, 25}, n \in {1, 5}}
    \cup {DrawImage(15, 1, 61, 2, 0, 5), DrawImage(2, 15, 3, 29, 5, 5)}

\* Vx := v; Fx29
FontImages ==
    {Image(<<Op(6, x, 0, 0) + v, Op(15, x, 2, 9)>>) :
        x \in {0, 3, 15}, v \in {0, 2, 15}}

\* V0 := v; Bnnn
IndexImages ==
    {Image(<<Op(6, 0, 0, 0) + v, Op(11, 0, 0, 0) + nnn>>) :
        v \in {0, 1, 255}, nnn \in {0, 291, 4095}}

\* The largest image that fits: a jump to its last opcode (00E0, at 0xFFE)
Fits ==
    [i \in 1..(RAM_SIZE - PROGRAM_START) |->
        CASE i = 1 -> 31 [] i = 2 -> 254
          [] i = RAM_SIZE - PROGRAM_START -> 224
          [] OTHER -> 0]

\* images one byte and a thousand bytes too long
TooLong == {Fits \o <<1>>, Fits \o [i \in 1..1000 |-> 7]}

Images == DrawImages \cup FontImages \cup IndexImages \cup {Fits} \cup TooLong

Next ==
    \/ \E data \in Images : Load(data)
    \/ FetchExecute

Spec == Init /\ [][Next]_vars

-----------------------------------------------------------------------------
(* Properties *)

Stepped == last'.op = "fetch_execute"

KeyCalled == last'.op = "key_pressed"

IsFx0A(opcode) == D1(opcode) = 15 /\ Y(opcode) = 0 /\ N(opcode) = 10

IsFx29(opcode) == D1(opcode) = 15 /\ Y(opcode) = 2 /\ N(opcode) = 9

\* C1: a key release (key_pressed(key, false), key in 0..15) delivered while
\* the machine waits for a key leaves it waiting and leaves the target
\* register unchanged.
C1_ReleaseKeepsWaiting ==
    [][(KeyCalled /\ ~last'.state /\ last'.key < 16 /\ paused)
        => (paused' /\ reg_v' = reg_v)]_vars

\* C2: while the machine waits for a key, fetch_execute changes no field: PC,
\* I, V0..VF, memory, stack, timers, keyboard, framebuffer and wait state stay
\* as they are (and the call does not panic).
C2_StepWhilePausedIsNoOp ==
    [][(Stepped /\ paused) => UNCHANGED vm_vars]_vars

\* a step was made while the machine was waiting, with both timers running
C2_Witness ==
    /\ last.op = "fetch_execute" /\ last.opcode = NoOpcode
    /\ paused /\ delay_timer > 0 /\ sound_timer > 0

\* C3: after a step has executed Fx0A, the first key_pressed(k, true) (k in
\* 0..15) delivered afterwards sets Vx = k and ends the wait, with PC at the
\* instruction that follows the Fx0A.
C3_FirstPressResumes ==
    [][(KeyCalled /\ last'.state /\ last'.key < 16 /\ fx0a.reg < 16)
        => /\ reg_v'[fx0a.reg] = last'.key
           /\ ~paused'
           /\ pc' = fx0a.resume]_vars

\* C9: a key_pressed call with a key outside 0..15 modifies no register, no
\* keyboard entry and not the wait flag, in every state of the machine.
C9_BadKeyChangesNothing ==
    [][(KeyCalled /\ last'.key >= 16)
        => UNCHANGED <<reg_v, keyboard, paused, store_keypress_in_reg>>]_vars

\* The pixels a clipping draw of sprite at (x, y) changes: for each set bit at
\* row r, column c, the pixel (x0 + c, y0 + r) if it lies on the grid
ClippedPixels(sprite, x, y) ==
    LET x0 == x % RES_WIDTH
        y0 == y % RES_HEIGHT
    IN {(y0 + r) * RES_WIDTH + x0 + c :
          <<r, c>> \in {rc \in (0..(Len(sprite) - 1)) \X (0..7) :
                          /\ BitOf(sprite[rc[1] + 1], 7 - rc[2]) = 1
                          /\ x0 + rc[2] < RES_WIDTH
                          /\ y0 + rc[1] < RES_HEIGHT}}

Pixels == 0..(RES_WIDTH * RES_HEIGHT - 1)

\* C4: Display::draw clips at the grid edges: the pixels a draw changes are
\* exactly the pixels (x0 + c, y0 + r) of the set bits with x0 + c < 64 and
\* y0 + r < 32; a bit past the right or bottom edge changes no pixel.
C4_DrawClips ==
    [][last'.op = "draw"
        => \A p \in Pixels :
              (display'[p] # display[p])
                  <=> p \in ClippedPixels(last'.sprite, last'.x, last'.y)]_vars

\* C5: drawing the same sprite again at the same (x, y) gives back the
\* framebuffer of before the first draw, and the second draw returns
\* collision = true whenever the first draw turned a pixel on.
C5_DrawTwiceRestores ==
    [][last'.op = "draw"
        => LET again == DisplayDraw(display', last'.sprite, last'.x, last'.y)
           IN /\ again.buffer = display
              /\ (\E p \in Pixels : ~display[p] /\ display'[p]) => again.unset]_vars

\* the same draw was made twice in a row and the second one reported a
\* collision
C5_Witness ==
    /\ last.op = "draw" /\ last.repeat /\ last.ret
    /\ draws >= 2

\* C6: Dxyn draws the n bytes at ram[I..I+n-1] at (Vx, Vy), most significant
\* bit leftmost: every pixel (x0 + c, y0 + r) of the grid under the sprite is
\* toggled exactly when bit c of row r is set; and VF becomes 1 if some pixel
\* that was on has been turned off and 0 otherwise, whatever VF held before.
C6_DxynDrawsAndFlags ==
    [][(Stepped /\ D1(last'.opcode) = 13 /\ ~panicked')
        => LET x0 == reg_v[X(last'.opcode)] % RES_WIDTH
               y0 == reg_v[Y(last'.opcode)] % RES_HEIGHT
           IN /\ \A r \in 0..(N(last'.opcode) - 1), c \in 0..7 :
                    (x0 + c < RES_WIDTH /\ y0 + r < RES_HEIGHT)
                    => ((display'[(y0 + r) * RES_WIDTH + x0 + c]
                            # display[(y0 + r) * RES_WIDTH + x0 + c])
                        <=> BitOf(ram[reg_i + r], 7 - c) = 1)
              /\ reg_v'[15] = IF \E p \in Pixels : display[p] /\ ~display'[p]
                              THEN 1 ELSE 0]_vars

\* a Dxyn has just drawn without collision while VF held 1 from the draw
\* before it: the flag was overwritten with 0
C6_Witness ==
    /\ last.op = "fetch_execute" /\ D1(last.opcode) = 13
    /\ reg_v[15] = 0
    /\ pc = PROGRAM_START + 12
    /\ \E p \in Pixels : display[p]

\* C7: Fx29 sets I to the font base plus 5 times the value held in Vx, for
\* every register x and every value of Vx in 0..15.
C7_Fx29UsesValueOfVx ==
    [][(Stepped /\ IsFx29(last'.opcode) /\ reg_v[X(last'.opcode)] < 16)
        => reg_i' = FONT_SPRITES_MEM_ADDR
                      + FONT_SPRITE_LEN * reg_v[X(last'.opcode)]]_vars

C10_LoadTooLongRejected ==
    [][(last'.op = "load" /\ last'.len > RAM_SIZE - PROGRAM_START)
        => /\ panicked'
           /\ ram' = ram
           /\ pc' = pc]_vars

\* a load of 3585 bytes has been rejected
C10_Witness ==
    /\ last.op = "load" /\ last.len = RAM_SIZE - PROGRAM_START + 1
    /\ panicked

-----------------------------------------------------------------------------
(* The machine as main.rs drives it: one image is loaded into the new       *)
(* machine, then it is stepped                                              *)

\* chip8.load(&buffer), called once, right after Chip8::new
LoadOnce(data) == loads = 0 /\ Load(data)

\* Vr := v for the registers r of regs, in order
SetRegs(regs, v) ==
    [k \in 1..Len(regs) |-> Op(6, regs[k], 0, 0) + v[regs[k]]]

AllRegs == <<0, 1, 2, 3, 4, 5, 6, 7, 8, 9, 10, 11, 12, 13, 14, 15>>

\* V0..V2 := 0x7B, 0x22, 0x33; I := i; then one opcode that reads or writes
\* memory at I
EdgeImage(i, opcode) ==
    Image(<<Op(6, 0, 0, 0) + 123, Op(6, 1, 0, 0) + 34, Op(6, 2, 0, 0) + 51,
            Op(10, 0, 0, 0) + i, opcode>>)

\* Fx33, Fx55, Fx65 and Dxyn at the end of memory, at the font table and just
\* after it
EdgeImages ==
    {EdgeImage(i, opcode) :
        i \in {0, 78, 80, 4093, 4094, 4095},
        opcode \in {Op(15, 0, 3, 3), Op(15, 2, 5, 5), Op(15, 2, 6, 5),
                    Op(13, 0, 1, 5)}}

\* every register gets a value; V0..Vx are dumped at I; every register is
\* overwritten; V0..Vx are loaded from I
RoundTripImage(x, i) ==
    Image(SetRegs(AllRegs, [r \in 0..15 |-> 17 + 13 * r])
          \o <<Op(10, 0, 0, 0) + i, Op(15, x, 5, 5)>>
          \o SetRegs(AllRegs, [r \in 0..15 |-> 238 - r])
          \o <<Op(15, x, 6, 5)>>)

RoundTripImages == {RoundTripImage(x, i) : x \in 0..15, i \in {768, 4080}}

MemImages == EdgeImages \cup RoundTripImages

NextMem ==
    \/ \E data \in MemImages : LoadOnce(data)
    \/ FetchExecute

SpecMem == Init /\ [][NextMem]_vars

IsFx33(opcode) == D1(opcode) = 15 /\ Y(opcode) = 3 /\ N(opcode) = 3

IsFx55(opcode) == D1(opcode) = 15 /\ Y(opcode) = 5 /\ N(opcode) = 5

IsFx65(opcode) == D1(opcode) = 15 /\ Y(opcode) = 6 /\ N(opcode) = 5

\* C11: every step is all-or-nothing: a step that ends in a fault (a multi-byte
\* write or a read whose range I.. runs past the end of memory, among others)
\* has changed no byte of memory, no register and no pixel.
C11_FaultLeavesNothingBehind ==
    [][(Stepped /\ panicked')
        => UNCHANGED <<ram, reg_v, reg_i, display, stack>>]_vars

\* The 80 bytes at the font base hold the 16 built-in glyphs
FontIntact ==
    \A g \in 1..Len(FONT_SPRITES) : \A b \in 1..FONT_SPRITE_LEN :
        ram[FONT_SPRITES_MEM_ADDR + (g - 1) * FONT_SPRITE_LEN + (b - 1)]
            = FONT_SPRITES[g][b]

\* C12: the font glyph table is never modified after construction: in every
\* reachable state the 80 bytes at the font base equal the built-in glyphs.
C12_FontNeverModified == FontIntact

-----------------------------------------------------------------------------
(* Control flow: calls, returns, skips and words that are no opcode *)

\* Words no arm of the match in execute accepts
Malformed(opcode) ==
    LET d1 == D1(opcode)
        x == X(opcode)
        y == Y(opcode)
        n == N(opcode)
    IN \/ d1 = 0 /\ ~(x = 0 /\ y = 14 /\ n \in {0, 14})
       \/ d1 \in {5, 9} /\ n # 0
       \/ d1 = 8 /\ n \notin {0, 1, 2, 3, 4, 5, 6, 7, 14}
       \/ d1 = 14 /\ <<y, n>> \notin {<<9, 14>>, <<10, 1>>}
       \/ d1 = 15 /\ <<y, n>> \notin {<<0, 7>>, <<0, 10>>, <<1, 5>>, <<1, 8>>,
                                      <<1, 14>>, <<2, 9>>, <<3, 3>>, <<5, 5>>,
                                      <<6, 5>>}

Is00EE(opcode) == opcode = Op(0, 0, 14, 14)

Is2nnn(opcode) == D1(opcode) = 2

MalformedImages ==
    {Image(<<opcode>>) :
        opcode \in {Op(0, 0, 14, 14), Op(5, 0, 1, 1), Op(8, 0, 1, 8),
                    Op(15, 0, 0, 0), Op(14, 0, 0, 0), Op(9, 0, 1, 1),
                    Op(0, 1, 2, 3)}}

\* 0x200: call 0x206   0x202: V0 := 1   0x204: jump 0x204
\* 0x206: call 0x20A   0x208: return    0x20A: return
NestedCalls ==
    Image(<<Op(2, 2, 0, 6), Op(6, 0, 0, 1), Op(1, 2, 0, 4),
            Op(2, 2, 0, 10), Op(0, 0, 14, 14), Op(0, 0, 14, 14)>>)

\* 0x200: call 0x204   0x202: return (nothing to return to)   0x204: return
ReturnTwice ==
    Image(<<Op(2, 2, 0, 4), Op(0, 0, 14, 14), Op(0, 0, 14, 14)>>)

\* 0x200: call 0x200
Recursion == Image(<<Op(2, 2, 0, 0)>>)

CallImages == {NestedCalls, ReturnTwice, Recursion}

SkipImages ==
    {Image(<<Op(6, 0, 0, 0) + v, Op(6, 1, 0, 0) + w, opcode>>) :
        v \in {0, 7, 16, 255}, w \in {0, 7},
        opcode \in {Op(3, 0, 0, 7), Op(4, 0, 0, 7), Op(5, 0, 1, 0),
                    Op(9, 0, 1, 0), Op(14, 0, 9, 14), Op(14, 0, 10, 1)}}

FlowImages == MalformedImages \cup CallImages \cup SkipImages

NextFlow ==
    \/ \E data \in FlowImages : LoadOnce(data)
    \/ FetchExecute

SpecFlow == Init /\ [][NextFlow]_vars

\* The 16-bit word at address a, big-endian as fetch reads it
WordAt(a) == ram[a] * U8 + ram[a + 1]

\* C13: a malformed-program fault is fatal: a step that executes 00EE with an
\* empty call stack, or fetches a word no opcode pattern matches, aborts (the
\* word is not skipped), and after an abort the machine takes no further step.
C13_MalformedIsFatal ==
    [][/\ (/\ Stepped
           /\ Fetches
           /\ \/ Malformed(NextOpcode)
              \/ Is00EE(NextOpcode) /\ stack = <<>>)
          => panicked'
       /\ panicked => UNCHANGED vars]_vars

\* A step has aborted on 8018, a word of the ALU family with no arm
C13_Witness ==
    /\ panicked
    /\ last.op = "fetch_execute"
    /\ last.opcode = Op(8, 0, 1, 8)
    /\ Malformed(last.opcode)

\* C14: calls and returns pair in LIFO order: 2nnn at address a pushes a + 2,
\* sets PC to nnn and deepens the stack by one; 00EE pops exactly the top
\* entry into PC, which is the address following a call; no other opcode
\* touches the stack.
C14_CallsAndReturnsPair ==
    [][(Stepped /\ Fetches) =>
        /\ Is2nnn(NextOpcode) =>
            /\ stack' = Append(stack, pc + 2)
            /\ Len(stack') = Len(stack) + 1
            /\ pc' = NNN(NextOpcode)
        /\ (Is00EE(NextOpcode) /\ stack # <<>>) =>
            /\ pc' = stack[Len(stack)]
            /\ stack' = SubSeq(stack, 1, Len(stack) - 1)
            /\ Is2nnn(WordAt(pc' - 2))
        /\ (~Is2nnn(NextOpcode) /\ ~Is00EE(NextOpcode)) => UNCHANGED stack]_vars

\* NestedCalls has returned from both calls: back at 0x202 with an empty stack
C14_Witness ==
    /\ ~panicked
    /\ last.op = "fetch_execute"
    /\ Is00EE(last.opcode)
    /\ WordAt(518) = Op(2, 2, 0, 10)
    /\ pc = 514
    /\ stack = <<>>

IsSkip(opcode) ==
    \/ D1(opcode) \in {3, 4}
    \/ D1(opcode) \in {5, 9} /\ N(opcode) = 0
    \/ D1(opcode) = 14 /\ <<Y(opcode), N(opcode)>> \in {<<9, 14>>, <<10, 1>>}

\* Key number k is held down; there is no key above 15
KeyDown(k) == k \in DOMAIN keyboard /\ keyboard[k]

\* The condition under which a skip opcode skips
SkipCondition(opcode) ==
    LET vx == reg_v[X(opcode)]
        vy == reg_v[Y(opcode)]
    IN CASE D1(opcode) = 3 -> vx = NN(opcode)
         [] D1(opcode) = 4 -> vx # NN(opcode)
         [] D1(opcode) = 5 -> vx = vy
         [] D1(opcode) = 9 -> vx # vy
         [] D1(opcode) = 14 /\ N(opcode) = 14 -> KeyDown(vx)
         [] D1(opcode) = 14 /\ N(opcode) = 1 -> ~KeyDown(vx)

\* C15: for each skip opcode (3xkk, 4xkk, 5xy0, 9xy0, Ex9E, ExA1) and every
\* register and key state, one step advances PC by 4 when the condition holds
\* and by 2 when it does not, and changes nothing but PC.
C15_SkipAdvancesPC ==
    [][(Stepped /\ Fetches /\ IsSkip(NextOpcode)) =>
        /\ pc' = pc + (IF SkipCondition(NextOpcode) THEN 4 ELSE 2)
        /\ UNCHANGED <<display, ram, stack, reg_i, reg_v, delay_timer,
                       sound_timer, keyboard, paused, store_keypress_in_reg,
                       panicked>>]_vars

-----------------------------------------------------------------------------
(* Arithmetic with a flag *)

\* Operand values: the ends of the range, both sides of bit 7, and 74
AluValues == {0, 1, 74, 127, 128, 255}

\* Vx := a, Vy := b, then 8xyk
AluImage(x, y, a, b, k) ==
    Image(<<Op(6, x, 0, 0) + a, Op(6, y, 0, 0) + b, Op(8, x, y, k)>>)

AluImages ==
    {AluImage(xy[1], xy[2], a, b, k) :
        xy \in {<<3, 9>>, <<15, 9>>, <<3, 15>>},
        a \in AluValues, b \in AluValues, k \in {4, 5, 6, 7, 14}}

NextAlu ==
    \/ \E data \in AluImages : LoadOnce(data)
    \/ FetchExecute

SpecAlu == Init /\ [][NextAlu]_vars

\* The next step executes 8xyk
Is8xy(opcode, k) == D1(opcode) = 8 /\ N(opcode) = k

\* ... with x and y general registers other than VF
General(opcode) == X(opcode) # 15 /\ Y(opcode) # 15

\* C16: for all 8-bit a, b, 8xy4 with Vx = a and Vy = b (x, y other than F)
\* sets Vx to (a + b) mod 256 and VF to 1 if a + b >= 256, else to 0.
C16_AddSetsCarry ==
    [][(Stepped /\ Fetches /\ Is8xy(NextOpcode, 4) /\ General(NextOpcode)) =>
        LET a == reg_v[X(NextOpcode)]
            b == reg_v[Y(NextOpcode)]
        IN /\ reg_v'[X(NextOpcode)] = (a + b) % 256
           /\ reg_v'[15] = IF a + b >= 256 THEN 1 ELSE 0]_vars

\* 8394 has added 128 and 128: the sum is exactly 256
C16_Witness ==
    /\ ~panicked
    /\ last.op = "fetch_execute"
    /\ last.opcode = Op(8, 3, 9, 4)
    /\ reg_v[9] = 128
    /\ reg_v[3] = 0
    /\ reg_v[15] = 1

\* C17: for all 8-bit a, b, 8xy5 with Vx = a and Vy = b (x, y other than F)
\* sets Vx to (a - b) mod 256 and VF to 1 if a >= b, else to 0; 8xy7 sets Vx
\* to (b - a) mod 256 and VF to 1 if b >= a, else to 0.
C17_SubSetsNotBorrow ==
    [][(Stepped /\ Fetches /\ General(NextOpcode)) =>
        LET a == reg_v[X(NextOpcode)]
            b == reg_v[Y(NextOpcode)]
        IN /\ Is8xy(NextOpcode, 5) =>
                /\ reg_v'[X(NextOpcode)] = (a - b) % 256
                /\ reg_v'[15] = IF a >= b THEN 1 ELSE 0
           /\ Is8xy(NextOpcode, 7) =>
                /\ reg_v'[X(NextOpcode)] = (b - a) % 256
                /\ reg_v'[15] = IF b >= a THEN 1 ELSE 0]_vars

\* 8395 has subtracted 74 from 74: equal operands, no borrow
C17_Witness ==
    /\ ~panicked
    /\ last.op = "fetch_execute"
    /\ last.opcode = Op(8, 3, 9, 5)
    /\ reg_v[9] = 74
    /\ reg_v[3] = 0
    /\ reg_v[15] = 1

\* The flag of 8xyk for Vx = a and Vy = b
Flag(k, a, b) ==
    CASE k = 4 -> IF a + b >= 256 THEN 1 ELSE 0
      [] k = 5 -> IF a >= b THEN 1 ELSE 0
      [] k = 6 -> a % 2
      [] k = 7 -> IF b >= a THEN 1 ELSE 0
      [] k = 14 -> a \div 128

\* C18: every flag-producing opcode (8xy4, 8xy5, 8xy6, 8xy7, 8xyE) leaves VF
\* equal to its flag, computed from the operands as they were before the step,
\* also when x = F or y = F.
C18_FlagWinsInVF ==
    [][(/\ Stepped
        /\ Fetches
        /\ D1(NextOpcode) = 8
        /\ N(NextOpcode) \in {4, 5, 6, 7, 14}) =>
            reg_v'[15] = Flag(N(NextOpcode), reg_v[X(NextOpcode)],
                              reg_v[Y(NextOpcode)])]_vars

\* 8F96 has shifted VF = 1 right: VF holds the flag 1, not the result 0
C18_Witness ==
    /\ ~panicked
    /\ last.op = "fetch_execute"
    /\ last.opcode = Op(8, 15, 9, 6)
    /\ reg_v[15] = 1
    /\ reg_v[9] = 0

-----------------------------------------------------------------------------
(* Timers *)

\* V0 := n, delay := V0, V1 := k, sound or delay := V1, then loop in place
TimerImage(n, k, second) ==
    Image(<<Op(6, 0, 0, 0) + n, Op(15, 0, 1, 5), Op(6, 1, 0, 0) + k,
            Op(15, 1, 1, second), Op(1, 2, 0, 8)>>)

TimerImages ==
    {TimerImage(0, 2, 8), TimerImage(1, 0, 8), TimerImage(3, 2, 8),
     TimerImage(255, 0, 8), TimerImage(3, 2, 5)}

\* The loop of main.rs: a step every cycle, a tick every few cycles
NextTimer ==
    \/ \E data \in TimerImages : LoadOnce(data)
    \/ FetchExecute
    \/ DecTimers

SpecTimer == Init /\ [][NextTimer]_vars

\* The value of a timer that was set to n and has seen `ticks` ticks since
CountedDown(t) == t.n - t.ticks

\* C19: dec_timers decrements each nonzero timer by exactly 1 and leaves a
\* zero timer at zero; both timers are always in 0..255 (a tick never wraps 0
\* to 255); a timer set to n by Fx15/Fx18 and not set again holds n - k after
\* k <= n ticks, so it reaches 0 after exactly n ticks, and stays there.
C19_TimersCountDown ==
    [][/\ last'.op = "dec_timers" =>
            /\ delay_timer' = IF delay_timer > 0 THEN delay_timer - 1 ELSE 0
            /\ sound_timer' = IF sound_timer > 0 THEN sound_timer - 1 ELSE 0
       /\ delay_timer' \in 0..255
       /\ sound_timer' \in 0..255
       /\ delay_timer' = CountedDown(timing'["delay"])
       /\ sound_timer' = CountedDown(timing'["sound"])]_vars

\* The delay timer was set to 3, the sound timer to 2; the third tick since
\* has brought the delay timer to 0 and left the sound timer at 0
C19_Witness ==
    /\ last.op = "dec_timers"
    /\ timing["delay"] = [n |-> 3, ticks |-> 3]
    /\ timing["sound"] = [n |-> 2, ticks |-> 2]
    /\ delay_timer = 0
    /\ sound_timer = 0

-----------------------------------------------------------------------------
(* Bulk copies between the registers and memory *)

\* Register files a program may have built between a dump and a load
Clobbers(regs) ==
    {[r \in 0..15 |-> 0], [r \in 0..15 |-> 255 - regs[r]],
     [r \in 0..15 |-> 238 - r]}

\* C20: Fx55 followed by Fx65 with the same x and the same I is a round trip:
\* Fx55 writes V0..Vx to memory I..I+x and nothing else; whatever the
\* registers are changed to afterwards, Fx65 from the same I restores V0..Vx
\* to the dumped values and leaves Vx+1..VF, I and memory as they were.
C20_DumpThenLoadRoundTrips ==
    [][(Stepped /\ Fetches /\ ~panicked') =>
        LET x == X(NextOpcode)
        IN /\ IsFx55(NextOpcode) =>
                /\ ram' = [a \in DOMAIN ram |->
                              IF a \in reg_i..(reg_i + x) THEN reg_v[a - reg_i]
                              ELSE ram[a]]
                /\ UNCHANGED <<reg_v, reg_i>>
                /\ \A clobber \in Clobbers(reg_v) :
                     LET after == OpFx65([Self' EXCEPT !.reg_v = clobber],
                                         NextOpcode)
                     IN /\ ~after.panicked
                        /\ after.reg_v = [r \in 0..15 |->
                                            IF r <= x THEN reg_v[r]
                                            ELSE clobber[r]]
                        /\ after.ram = ram'
                        /\ after.reg_i = reg_i
           /\ IsFx65(NextOpcode) =>
                /\ reg_v' = [r \in 0..15 |->
                                IF r <= x THEN ram[reg_i + r] ELSE reg_v[r]]
                /\ UNCHANGED <<ram, reg_i>>]_vars

\* RoundTripImage(7, 768) has run to its end: V0..V7 hold the values dumped
\* (17 + 13r), V8..VF the values written after the dump (238 - r)
C20_Witness ==
    /\ ~panicked
    /\ last.op = "fetch_execute"
    /\ last.opcode = Op(15, 7, 6, 5)
    /\ reg_i = 768
    /\ reg_v = [r \in 0..15 |-> IF r <= 7 THEN 17 + 13 * r ELSE 238 - r]
    /\ \A r \in 0..7 : ram[768 + r] = 17 + 13 * r
    /\ ram[768 + 8] = 0

-----------------------------------------------------------------------------
(* Loading over a machine that has run *)

MaxReloads == 1

\* chip8.load(data) on a machine that has been loaded before
Reload(data) ==
    /\ ~panicked
    /\ loads >= 1
    /\ loads <= MaxReloads
    /\ Commit(load(Self, data))
    /\ last' = [Call("load", 0, FALSE, Len(data), NoOpcode, <<>>, 0, 0, FALSE)
                    EXCEPT !.data = data]
    /\ loads' = loads + 1
    /\ UNCHANGED <<fx0a, draws, timing>>

\* 0x200: VA := 42      0x202: I := 0 (glyph 0)   0x204: draw it at (V0, V0)
\* 0x206: delay := VA   0x208: sound := VA        0x20A: call 0x20E
\* 0x20C: jump 0x20C    0x20E: wait for a key into V3
\* 0x210: return
Busy ==
    Image(<<Op(6, 10, 2, 10), Op(10, 0, 0, 0), Op(13, 0, 0, 5),
            Op(15, 10, 1, 5), Op(15, 10, 1, 8), Op(2, 2, 0, 14),
            Op(1, 2, 0, 12), Op(15, 3, 0, 10), Op(0, 0, 14, 14)>>)

\* 0x200: clear the display, and the image ends
Short == Image(<<Op(0, 0, 14, 0)>>)

\* An image of no bytes, and one of a single byte
Tiny == {<<>>, <<18>>}

FirstImages == {Busy, Short, Fits}

NextImages == {Short, Fits} \cup Tiny \cup {Fits \o <<1>>}

\* A host that loads again while the machine runs, with key 3 going down and up
NextLoad ==
    \/ \E data \in FirstImages : LoadOnce(data)
    \/ \E data \in NextImages : Reload(data)
    \/ FetchExecute
    \/ \E state \in BOOLEAN : KeyPressed(3, state)

SpecLoad == Init /\ [][NextLoad]_vars

\* The last call was a load, and it returned
Loaded == last.op = "load" /\ ~panicked

\* C21: for every byte sequence of length n <= 3584, load copies it verbatim
\* (memory[0x200 + i] = byte i for all i < n) and sets PC to 0x200; the first
\* step after the load fetches its opcode from memory[0x200] and
\* memory[0x201], most significant byte first.
C21_LoadCopiesVerbatim ==
    [][/\ (last'.op = "load" /\ last'.len <= RAM_SIZE - PROGRAM_START) =>
            /\ ~panicked'
            /\ pc' = 512
            /\ \A i \in 0..(last'.len - 1) : ram'[512 + i] = last'.data[i + 1]
       /\ (Loaded /\ Stepped /\ ~paused) =>
            /\ Fetches
            /\ last'.opcode = ram[512] * 256 + ram[513]
            /\ last.len >= 2 =>
                 last'.opcode = last.data[1] * 256 + last.data[2]]_vars

\* Fits, 3584 bytes, was loaded and its first opcode 1FFE has been executed:
\* PC is at the image's last opcode, whose low byte sits in the last cell
C21_Witness ==
    /\ ~panicked
    /\ last.op = "fetch_execute"
    /\ last.opcode = Op(1, 15, 15, 14)
    /\ pc = 4094
    /\ ram[4095] = 224

\* C24: load does not reset the machine: it changes only memory[0x200 ..
\* 0x200 + n) and PC; registers, I, the stack, both timers, the keyboard, the
\* framebuffer, the wait-for-key state and all other memory (bytes of a
\* longer image loaded before included) stay as they were.
C24_LoadChangesOnlyImageAndPC ==
    [][(last'.op = "load" /\ ~panicked') =>
        /\ ram' = [a \in DOMAIN ram |->
                      IF a >= 512 /\ a < 512 + last'.len
                      THEN last'.data[a - 512 + 1] ELSE ram[a]]
        /\ pc' = 512
        /\ UNCHANGED <<display, stack, reg_i, reg_v, delay_timer, sound_timer,
                       keyboard, paused, store_keypress_in_reg>>]_vars

\* Short was loaded over Busy while Busy waited for a key: the machine still
\* waits, inside the call, with its registers, timers, key 3 and pixels as
\* they were, and Busy's second opcode still at 0x202
C24_Witness ==
    /\ Loaded
    /\ last.data = Short
    /\ pc = 512
    /\ paused
    /\ store_keypress_in_reg = 3
    /\ stack = <<524>>
    /\ reg_v[10] = 42
    /\ delay_timer = 42
    /\ sound_timer = 42
    /\ keyboard[3]
    /\ display[0]
    /\ WordAt(514) = Op(10, 0, 0, 0)

-----------------------------------------------------------------------------
(* Steps that abort *)

\* C22: a step aborts only on a malformed program (00EE on an empty stack, a
\* word that is no opcode): every other step completes, the fetch at PC, the
\* memory accesses at I.. and the keyboard lookup staying in range.
C22_OnlyMalformedAborts ==
    [][(Stepped /\ panicked') =>
        /\ Fetches
        /\ \/ Malformed(NextOpcode)
           \/ Is00EE(NextOpcode) /\ stack = <<>>]_vars

-----------------------------------------------------------------------------
(* Timers while the machine waits for a key *)

IsFx15(opcode) == D1(opcode) = 15 /\ Y(opcode) = 1 /\ N(opcode) = 5

IsFx18(opcode) == D1(opcode) = 15 /\ Y(opcode) = 1 /\ N(opcode) = 8

\* C23: timer ticks are independent of the wait for a key: a tick delivered
\* while the machine waits decrements both timers as at any other time, so
\* under any interleaving of steps, ticks and key events a sound timer set to
\* n holds n - k after k <= n ticks and beep() is false from the n-th tick
\* on, key or no key; steps and key events change a timer only by executing
\* Fx15 (delay) or Fx18 (sound).
C23_TicksIgnoreTheWait ==
    [][/\ (last'.op = "dec_timers" /\ paused) =>
            /\ delay_timer' = IF delay_timer > 0 THEN delay_timer - 1 ELSE 0
            /\ sound_timer' = IF sound_timer > 0 THEN sound_timer - 1 ELSE 0
            /\ paused'
       /\ sound_timer' = CountedDown(timing'["sound"])
       /\ beep' = (timing'["sound"].ticks < timing'["sound"].n)
       /\ KeyCalled => UNCHANGED <<delay_timer, sound_timer>>
       /\ Stepped =>
            /\ delay_timer' = IF Fetches /\ IsFx15(NextOpcode)
                              THEN reg_v[X(NextOpcode)] ELSE delay_timer
            /\ sound_timer' = IF Fetches /\ IsFx18(NextOpcode)
                              THEN reg_v[X(NextOpcode)] ELSE sound_timer]_vars

\* The sound timer was set to 2 before an Fx0A; no key has been pressed since
\* and the machine still waits; the second tick has just silenced the beep
C23_Witness ==
    /\ paused
    /\ fx0a # NoFx0A
    /\ \A k \in DOMAIN keyboard : ~keyboard[k]
    /\ last.op = "dec_timers"
    /\ timing["sound"] = [n |-> 2, ticks |-> 2]
    /\ sound_timer = 0
    /\ ~beep

\* C25: Fx55 and Fx65 leave the index register I unchanged for every x, so
\* a bulk copy that follows another without Annn or Fx1E in between starts
\* at the same address.
C25_BulkCopyKeepsI ==
    [][(/\ Stepped
        /\ Fetches
        /\ IsFx55(NextOpcode) \/ IsFx65(NextOpcode)) => reg_i' = reg_i]_vars

\* RoundTripImage(15, 4080) has run to its end: after FF55 and FF65, each
\* copying 16 bytes, I is still 4080 and the 16th byte was read back from 4095
C25_Witness ==
    /\ ~panicked
    /\ last.op = "fetch_execute"
    /\ last.opcode = Op(15, 15, 6, 5)
    /\ reg_i = 4080
    /\ ram[4095] = 17 + 13 * 15
    /\ reg_v[15] = 17 + 13 * 15
====
